---- MODULE Spec2Model ----
(***************************************************************************)
(* Compression / merge engine of ContextForge.                             *)
(*                                                                         *)
(* The model follows the four compression paths of the repository:         *)
(*   - client single-block  (useCompression.compressSingle ->               *)
(*                            CompressionService.compressBlock ->           *)
(*                            blocks.compress)                              *)
(*   - local-agent single   (compressSingle -> compressWithClaudeCode)      *)
(*   - client merge         (compressAndMerge -> compressText ->            *)
(*                            blocks.compressAndMerge)                      *)
(*   - local-agent merge    (compressAndMerge ->                            *)
(*                            compressAndMergeWithClaudeCode ->             *)
(*                            blocks.compressAndMerge)                      *)
(*                                                                         *)
(* A text is abstracted to the things the code looks at: its words (for    *)
(* the important-word extractors and String.includes), the number of       *)
(* other characters, and its leading/trailing whitespace (for trim()).     *)
(***************************************************************************)
EXTENDS Integers, Sequences, FiniteSets, TLC

(***************************************************************************)
(* Bounds of the model.                                                    *)
(***************************************************************************)
\* blocks in the store when the hook is called
MaxBlocks == 2

\* most words in a text the scoring functions are applied to on their own
MaxWords == 2

\* most onDelete calls of one useConfirmDelete instance in flight at once
MaxDeletes == 2

\* most text blocks the agent sends in one run
MaxMessages == 2

\* the hook call a behaviour follows
Att == {"a1"}

(***************************************************************************)
(* Program constants.                                                      *)
(***************************************************************************)
MIN_TOKENS_FOR_COMPRESSION == 100

\* MIN_COMPRESSION_RATIO = 1.2 kept as the fraction RatioNum / RatioDen
RatioNum == 12
RatioDen == 10

\* quality floor 0.6 kept as the fraction QualityNum / QualityDen
QualityNum == 6
QualityDen == 10

\* slice(0, 10) of proper nouns, slice(0, 5) of acronyms, slice(0, 50)
ProperNounCap == 10
TechnicalCap == 5
ServerWordCap == 50

\* server extractor keeps words with word.length > 3
ServerMinWordLen == 3

(***************************************************************************)
(* Words and texts.                                                        *)
(***************************************************************************)
Vocab == {"42", "2024", "Alice", "API", "budget", "the", "rapid",
          "Block", "note", "1", "2", "3", "4", "5"}

WordLen(w) ==
    CASE w \in {"1", "2", "3", "4", "5"} -> 1
      [] w = "42" -> 2
      [] w \in {"API", "api", "the"} -> 3
      [] w \in {"2024", "note"} -> 4
      [] w \in {"Alice", "alice", "rapid", "Block", "block"} -> 5
      [] w = "budget" -> 6

\* String.prototype.toLowerCase on a word
ToLowerCase(w) ==
    CASE w = "Alice" -> "alice"
      [] w = "API" -> "api"
      [] w = "Block" -> "block"
      [] OTHER -> w

\* /\b\d+(?:\.\d+)?\b/ matches the word
IsNumber(w) == w \in {"42", "2024", "1", "2", "3", "4", "5"}

\* /\b[A-Z][a-z]+\b/ matches the word
IsProperNoun(w) == w \in {"Alice", "Block"}

\* /\b[A-Z]{2,}\b/ matches the word
IsTechnical(w) == w = "API"

\* the stop words of the server extractor that occur in Vocab
StopWords == {"the"}

\* s occurs inside t, both lower case (String.includes on one word)
SubstringOf(s, t) ==
    \/ s = t
    \/ <<s, t>> \in {<<"2", "42">>, <<"2", "2024">>, <<"4", "42">>, <<"4", "2024">>,
                     <<"api", "rapid">>}

RECURSIVE SumLen(_)
SumLen(ws) == IF ws = <<>> THEN 0 ELSE WordLen(Head(ws)) + SumLen(Tail(ws))

\* content.length
TextLen(t) == t.lead + t.extra + SumLen(t.toks) + t.ws

\* content.trim()
Trim(t) == [t EXCEPT !.lead = 0, !.ws = 0]

\* !content || content.trim().length === 0
IsBlank(t) == TextLen(Trim(t)) = 0

EmptyText == [toks |-> <<>>, extra |-> 0, lead |-> 0, ws |-> 0]

\* a + b (string concatenation with nothing between). lead and ws count the
\* whitespace at the start and at the end, which trim() removes; a text of
\* whitespace only carries it all in ws. Whitespace that ends up between
\* two other characters is counted in extra
Concat(a, b) ==
    IF IsBlank(a) /\ IsBlank(b)
    THEN [toks |-> <<>>, extra |-> 0, lead |-> 0, ws |-> TextLen(a) + TextLen(b)]
    ELSE IF IsBlank(a)
    THEN [b EXCEPT !.lead = TextLen(a) + b.lead]
    ELSE IF IsBlank(b)
    THEN [a EXCEPT !.ws = a.ws + TextLen(b)]
    ELSE [toks |-> a.toks \o b.toks, extra |-> a.extra + a.ws + b.lead + b.extra,
          lead |-> a.lead, ws |-> b.ws]

\* an estimator that rounds down
estimateTokens_Floor(t) == TextLen(t) \div 4

\* Math.ceil(content.length / 4)
estimateTokens(t) == (TextLen(t) + 3) \div 4

\* compressedLower.includes(word.toLowerCase())
Includes(t, w) ==
    \E i \in 1..Len(t.toks) : SubstringOf(ToLowerCase(w), ToLowerCase(t.toks[i]))

Take(s, n) == IF Len(s) <= n THEN s ELSE SubSeq(s, 1, n)

RECURSIVE Unique(_)
\* [...new Set(words)]: first occurrences, in order
Unique(s) ==
    IF s = <<>> THEN <<>>
    ELSE LET r == Unique(SubSeq(s, 1, Len(s) - 1))
             x == s[Len(s)]
         IN IF \E i \in 1..Len(r) : r[i] = x THEN r ELSE Append(r, x)

(***************************************************************************)
(* Importance extractors and quality score (client and server variants).   *)
(***************************************************************************)
extractImportantWords(t) ==
    LET numbers == SelectSeq(t.toks, IsNumber)
        properNouns == SelectSeq(t.toks, IsProperNoun)
        technical == SelectSeq(t.toks, IsTechnical)
    IN numbers \o Take(properNouns, ProperNounCap) \o Take(technical, TechnicalCap)

serverKeep(w) == w \notin StopWords /\ WordLen(w) > ServerMinWordLen

ServerLower(ws) == [i \in 1..Len(ws) |-> ToLowerCase(ws[i])]

extractImportantWordsServer(t) ==
    Take(SelectSeq(Unique(ServerLower(t.toks)), serverKeep), ServerWordCap)

\* a quality score that counts a text without important words as fully kept
QualityOf_DefaultOne(important, compressed) ==
    LET preserved == Cardinality({i \in 1..Len(important) : Includes(compressed, important[i])})
    IN IF preserved >= Len(important) THEN <<1, 1>> ELSE <<preserved, Len(important)>>

\* a quality score is the fraction <<num, den>>
QualityOf(important, compressed) ==
    IF Len(important) = 0 THEN <<8, 10>>
    ELSE LET preserved == Cardinality({i \in 1..Len(important) : Includes(compressed, important[i])})
         IN IF preserved >= Len(important) THEN <<1, 1>> ELSE <<preserved, Len(important)>>

estimateQuality(original, compressed) ==
    QualityOf(extractImportantWords(original), compressed)

estimateQualityServer(original, compressed) ==
    QualityOf(extractImportantWordsServer(original), compressed)

\* quality < 0.6
QualityBelow(q) == q[1] * QualityDen < QualityNum * q[2]

\* a ratio check that also rejects a ratio of exactly 1.2
RatioBelow_AtFloor(orig, comp) == comp > 0 /\ orig * RatioDen <= RatioNum * comp

\* originalTokens / compressedTokens < 1.2 (x / 0 is Infinity or NaN: not below)
RatioBelow(orig, comp) == comp > 0 /\ orig * RatioDen < RatioNum * comp

(***************************************************************************)
(* Sample texts: block contents and backend outputs.                       *)
(***************************************************************************)
\* "x" * 50: 13 estimated tokens
SmallText == [toks |-> <<>>, extra |-> 50, lead |-> 0, ws |-> 0]

\* whitespace only, 400 characters: 100 estimated tokens
BlankText == [toks |-> <<>>, extra |-> 0, lead |-> 0, ws |-> 400]

\* 480 characters (120 tokens) with numbers, names and an acronym
BigText == [toks |-> <<"Alice", "42", "API", "2024", "budget", "the", "Alice">>,
            extra |-> 452, lead |-> 0, ws |-> 0]

\* 480 characters (120 tokens), nothing the client extractor picks up
PlainText == [toks |-> <<"the", "budget">>, extra |-> 471, lead |-> 0, ws |-> 0]

BlockContents == {SmallText, BlankText, BigText, PlainText}

\* 400 characters after trim (100 tokens), everything preserved
GoodOut == [toks |-> <<"Alice", "42", "API", "2024", "budget">>, extra |-> 380, lead |-> 0, ws |-> 2]

\* 320 characters (80 tokens), everything preserved
SmallOut == [toks |-> <<"Alice", "42", "API", "2024", "budget">>, extra |-> 300, lead |-> 0, ws |-> 0]

\* 404 characters (101 tokens): 120 / 101 is below 1.2
LongOut == [toks |-> <<"Alice", "42", "API", "2024", "budget">>, extra |-> 384, lead |-> 0, ws |-> 0]

\* 160 characters (40 tokens), no important word survives
LossyOut == [toks |-> <<"the">>, extra |-> 157, lead |-> 0, ws |-> 0]

\* 404 characters (101 tokens) and no important word survives
LongLossyOut == [toks |-> <<"the">>, extra |-> 401, lead |-> 0, ws |-> 0]

\* whitespace only: empty after trim
EmptyOut == [toks |-> <<>>, extra |-> 0, lead |-> 0, ws |-> 3]

BackendOutputs == {GoodOut, SmallOut, LongOut, LossyOut, LongLossyOut, EmptyOut}

\* 242 characters, 240 after trim (60 tokens): of the important words only
\* "budget" survives
HalfOut == [toks |-> <<"budget">>, extra |-> 234, lead |-> 0, ws |-> 2]

\* the text blocks an agent run sends, none or several times: no block, or
\* whitespace only, is an empty answer; one HalfOut is 60 tokens, also after
\* or before whitespace; two are 121
AgentTexts == {EmptyOut, HalfOut}

(***************************************************************************)
(* Blocks and the store.                                                   *)
(***************************************************************************)
BlockIds == 1..(MaxBlocks + 1)

Providers == {"claude-code", "ollama", "openrouter"}

Strategies == {"semantic", "structural", "statistical"}

\* the strategies a call is started with: compressContent throws the same
\* way for "structural" and "statistical", so one of the two is tried
StrategiesTried == {"semantic", "structural"}

\* localStorage.getItem(KEYS.COMPRESSION_PROVIDER): a provider, or "" for null
LsValues == Providers \cup {""}

\* DEFAULTS.COMPRESSION_PROVIDER
DefaultProvider == "claude-code"

\* blocks.create: content and type only; no cached token count
NewBlock(content) ==
    [content |-> content, type |-> "note", tokens |-> 0, isCompressed |-> FALSE,
     compressionStrategy |-> "", ratio |-> <<0, 0>>, originalTokens |-> 0,
     mergedFromCount |-> 0]

\* a token count that prefers the count kept from the first compression
TokensOf_OriginalFirst(b) ==
    IF b.originalTokens # 0 THEN b.originalTokens
    ELSE IF b.tokens # 0 THEN b.tokens ELSE estimateTokens(b.content)

\* block.tokens || estimateTokens(block.content)
TokensOf(b) == IF b.tokens # 0 THEN b.tokens ELSE estimateTokens(b.content)

\* blocks.compress writing args.originalTokens over the stored one
CompressPatch_Overwrite(block, args) ==
    [block EXCEPT !.content = args.compressedContent,
                  !.isCompressed = TRUE,
                  !.compressionStrategy = args.strategy,
                  !.ratio = <<args.originalTokens, args.compressedTokens>>,
                  !.tokens = args.compressedTokens,
                  !.originalTokens = args.originalTokens]

\* the patch of blocks.compress
CompressPatch(block, args) ==
    [block EXCEPT !.content = args.compressedContent,
                  !.isCompressed = TRUE,
                  !.compressionStrategy = args.strategy,
                  !.ratio = <<args.originalTokens, args.compressedTokens>>,
                  !.tokens = args.compressedTokens,
                  !.originalTokens = IF block.originalTokens # 0
                                     THEN block.originalTokens
                                     ELSE args.originalTokens]

\* the block inserted by blocks.compressAndMerge
MergedBlock(args) ==
    [content |-> args.compressedContent, type |-> args.targetType,
     tokens |-> args.compressedTokens, isCompressed |-> TRUE,
     compressionStrategy |-> args.strategy,
     ratio |-> <<args.originalTokens, args.compressedTokens>>,
     originalTokens |-> args.originalTokens,
     mergedFromCount |-> Len(args.blockIds)]

IndexWord(i) ==
    CASE i = 1 -> "1" [] i = 2 -> "2" [] i = 3 -> "3" [] i = 4 -> "4" [] OTHER -> "5"

\* `## Block ${index + 1} (${block.type})` + "\n\n" + block.content
WithHeader(b, i) ==
    [toks |-> <<"Block", IndexWord(i), b.type>> \o b.content.toks,
     extra |-> 7 + 2 + b.content.lead + b.content.extra + b.content.ws, lead |-> 0,
     ws |-> 0]

RECURSIVE JoinFrom(_, _)
\* blocks.map(header + content).join("\n\n---\n\n"), from index i on
JoinFrom(blks, i) ==
    IF i > Len(blks) THEN EmptyText
    ELSE IF i = Len(blks) THEN WithHeader(blks[i], i)
    ELSE LET h == WithHeader(blks[i], i)
             r == JoinFrom(blks, i + 1)
         IN [toks |-> h.toks \o r.toks, extra |-> h.extra + 7 + r.extra, lead |-> 0, ws |-> 0]

combinedContent(blks) == JoinFrom(blks, 1)

RECURSIVE SumTokens(_)
\* validBlocks.reduce((sum, b) => sum + (b.tokens || estimateTokens(b.content)), 0)
SumTokens(blks) ==
    IF blks = <<>> THEN 0 ELSE TokensOf(Head(blks)) + SumTokens(Tail(blks))

Range(s) == {s[i] : i \in 1..Len(s)}

(***************************************************************************)
(* State.                                                                  *)
(***************************************************************************)
VARIABLES
    store,        \* the blocks table: id -> block, for the ids that exist
    nextId,       \* next id the store hands out
    att,          \* the hook call: its position and what it read and wrote
    isCompressing, \* useCompression state
    error,        \* useCompression state ("" = null)
    result,       \* useCompression state (<<>> = null)
    probe,        \* the last application of a scoring function to given inputs
    confirm       \* useConfirmDelete state and the onDelete calls in flight

vars == <<store, nextId, att, isCompressing, error, result, probe, confirm>>

\* no scoring function has been applied on its own
NoProbe == [fn |-> "none"]

\* the items a list offers for deletion; "" stands for null
Items == {"item1", "item2"}

\* useConfirmDelete after construction: useState(null), useState(false); no
\* onDelete in flight, nothing deleted, no operation called yet
IdleConfirm ==
    [itemToDelete |-> "", isDeleting |-> FALSE,
     shown |-> [itemToDelete |-> "", isDeleting |-> FALSE],
     running |-> <<>>, deleted |-> {}, last |-> [op |-> "none", item |-> ""]]

NoStore == [i \in {} |-> NewBlock(EmptyText)]

IdleAtt ==
    [kind |-> "none", prov |-> "", pc |-> "idle", ids |-> <<>>, blks |-> <<>>,
     strategy |-> "", out |-> EmptyText, orig |-> 0, comp |-> 0,
     quality |-> <<0, 0>>, reason |-> "", calls |-> 0,
     agent |-> "none", emitted |-> 0, buf |-> EmptyText, timedOut |-> FALSE,
     patched |-> {}, inserted |-> 0, deleted |-> {}, todo |-> <<>>, pre |-> NoStore,
     svc |-> <<>>, reads |-> <<>>]

\* a block that one accepted single-block compression of BigText left behind
CompressedSeed ==
    CompressPatch(NewBlock(BigText),
                  [blockId |-> 1, compressedContent |-> Trim(GoodOut),
                   originalTokens |-> estimateTokens(BigText),
                   compressedTokens |-> estimateTokens(Trim(GoodOut)),
                   strategy |-> "semantic"])

SeedBlocks == {NewBlock(c) : c \in BlockContents} \cup {CompressedSeed}

Init ==
    /\ \E n \in 0..MaxBlocks : store \in [1..n -> SeedBlocks]
    /\ nextId = Cardinality(DOMAIN store) + 1
    /\ att = [a \in Att |-> IdleAtt]
    /\ isCompressing = FALSE
    /\ error = ""
    /\ result = <<>>
    /\ probe = NoProbe
    /\ confirm = IdleConfirm

\* compression.getProvider(), ls being the localStorage item ("" = not set)
getProvider(ls) == IF ls # "" THEN ls ELSE DefaultProvider

\* a merge mutation is between its insert and its last delete
InTxn(a) == att[a].pc = "delete"

\* mutations and queries are serialized by the store
NoTxn == \A a \in DOMAIN att : ~InTxn(a)

\* the CompressionResult compressBlock returns on validation failure and in
\* its catch: success false, the message, originalTokens: block.tokens || 0
ServiceFailure(b, message) ==
    [success |-> FALSE, error |-> message, originalTokens |-> b.tokens,
     compressedTokens |-> 0, tokensSaved |-> 0]

\* the CompressionResult of a scored output
ServiceScored(ok, message, orig, comp) ==
    [success |-> ok, error |-> message, originalTokens |-> orig,
     compressedTokens |-> comp, tokensSaved |-> IF ok THEN orig - comp ELSE 0]

\* a validateBlock that refuses a block that is already compressed
validateBlock_RejectsCompressed(b) ==
    IF b.isCompressed THEN "already_compressed"
    ELSE IF TokensOf(b) < MIN_TOKENS_FOR_COMPRESSION THEN "too_small"
    ELSE IF IsBlank(b.content) THEN "no_content"
    ELSE ""

\* validateBlock with the token floor left out
validateBlock_NoFloor(b) ==
    IF IsBlank(b.content) THEN "no_content" ELSE ""

\* CompressionService.validateBlock: "" when valid, else the reason
validateBlock(b) ==
    IF TokensOf(b) < MIN_TOKENS_FOR_COMPRESSION THEN "too_small"
    ELSE IF IsBlank(b.content) THEN "no_content"
    ELSE ""

\* the catch/finally of the hook: setError(message); setIsCompressing(false)
HookFails(a, rec, why) ==
    /\ att' = [att EXCEPT ![a] = [rec EXCEPT !.pc = "rejected", !.reason = why]]
    /\ error' = why
    /\ isCompressing' = FALSE

\* the hook has set isCompressing and awaits a service call that failed
\* before any backend call: the failure reaches the catch after the await
HookAwaitsFailure(a, rec, why) ==
    /\ att' = [att EXCEPT ![a] = [rec EXCEPT !.pc = "settle", !.reason = why]]
    /\ isCompressing' = TRUE
    /\ error' = ""

\* a Convex action or mutation threw on the server: the failure is on its
\* way to the client, where the hook still awaits the call
ActionFails(a, rec, why) ==
    /\ att' = [att EXCEPT ![a] = [rec EXCEPT !.pc = "settle", !.reason = why]]
    /\ UNCHANGED <<isCompressing, error>>

\* setResult(compressionResult); finally setIsCompressing(false)
HookSucceeds(a, rec) ==
    /\ att' = [att EXCEPT ![a] = [rec EXCEPT !.pc = "accepted"]]
    /\ result' = <<[kind |-> rec.kind, originalTokens |-> rec.orig,
                    compressedTokens |-> rec.comp]>>
    /\ isCompressing' = FALSE

(***************************************************************************)
(* Store operations of the surrounding application.                        *)
(***************************************************************************)
\* the call has started and has not ended
InFlight(a) ==
    att[a].pc \in {"settle", "backend", "fetch", "race", "answer", "mutate", "insert",
                   "delete", "return"}

\* blocks.create, by any client: content and type, no token count. Ids are
\* never reused; the table is capped at MaxBlocks ids
Create(content) ==
    /\ UNCHANGED <<probe, confirm>>
    /\ NoTxn
    /\ nextId <= MaxBlocks
    /\ store' = [i \in DOMAIN store \cup {nextId} |->
                    IF i = nextId THEN NewBlock(content) ELSE store[i]]
    /\ nextId' = nextId + 1
    /\ UNCHANGED <<att, isCompressing, error, result>>

\* blocks.remove (and removeInternal), by any client at any time; Convex runs
\* mutations serializably, so never inside another mutation
Remove(id) ==
    /\ UNCHANGED <<probe, confirm>>
    /\ NoTxn
    /\ id \in DOMAIN store
    /\ store' = [i \in DOMAIN store \ {id} |-> store[i]]
    /\ UNCHANGED <<nextId, att, isCompressing, error, result>>

(***************************************************************************)
(* useCompression.compressSingle, up to its first await.                   *)
(***************************************************************************)
StartSingle(a, id, strategy, ls) ==
    /\ UNCHANGED <<probe, confirm>>
    /\ att[a].pc = "idle"
    /\ NoTxn
    /\ id \in DOMAIN store
    /\ result' = <<>>
    /\ UNCHANGED <<store, nextId>>
    /\ LET prov == getProvider(ls)
           rec == [IdleAtt EXCEPT !.kind = "single", !.prov = prov,
                                  !.ids = <<id>>, !.strategy = strategy]
           crec == [rec EXCEPT !.blks = <<store[id]>>]
       IN IF prov = "claude-code"
          THEN /\ att' = [att EXCEPT ![a] = [rec EXCEPT !.pc = "fetch",
                                                         !.reads = <<<<>>>>]]
               /\ isCompressing' = TRUE
               /\ error' = ""
          ELSE IF validateBlock(store[id]) # ""
          THEN HookAwaitsFailure(a, [crec EXCEPT !.svc = ServiceFailure(store[id],
                                                           validateBlock(store[id]))],
                                 validateBlock(store[id]))
          ELSE IF strategy # "semantic"
          THEN HookAwaitsFailure(a, [crec EXCEPT !.svc = ServiceFailure(store[id],
                                                                       "strategy")],
                                 "strategy")
          ELSE /\ att' = [att EXCEPT ![a] = [crec EXCEPT !.pc = "backend", !.calls = 1]]
               /\ isCompressing' = TRUE
               /\ error' = ""

(***************************************************************************)
(* useCompression.compressAndMerge, up to its first await.                 *)
(***************************************************************************)
\* a compressAndMerge without its check for an empty list
StartMerge_NoEmptyCheck(a, ids, strategy, ls) ==
    /\ UNCHANGED <<probe, confirm>>
    /\ att[a].pc = "idle"
    /\ NoTxn
    /\ Range(ids) \subseteq DOMAIN store
    /\ UNCHANGED <<store, nextId>>
    /\ LET prov == getProvider(ls)
           rec == [IdleAtt EXCEPT !.kind = "merge", !.prov = prov,
                                  !.ids = ids, !.strategy = strategy]
           crec == [rec EXCEPT !.blks = [i \in 1..Len(ids) |-> store[ids[i]]]]
       IN /\ result' = <<>>
          /\ IF prov = "claude-code"
             THEN /\ att' = [att EXCEPT ![a] = [rec EXCEPT !.pc = "fetch",
                                 !.reads = [i \in 1..Len(ids) |-> <<>>]]]
                  /\ isCompressing' = TRUE
                  /\ error' = ""
             ELSE IF strategy # "semantic"
             THEN HookAwaitsFailure(a, crec, "strategy")
             ELSE /\ att' = [att EXCEPT ![a] = [crec EXCEPT !.pc = "backend",
                                                             !.calls = 1]]
                  /\ isCompressing' = TRUE
                  /\ error' = ""

StartMerge(a, ids, strategy, ls) ==
    /\ UNCHANGED <<probe, confirm>>
    /\ att[a].pc = "idle"
    /\ NoTxn
    /\ Range(ids) \subseteq DOMAIN store
    /\ UNCHANGED <<store, nextId>>
    /\ LET prov == getProvider(ls)
           rec == [IdleAtt EXCEPT !.kind = "merge", !.prov = prov,
                                  !.ids = ids, !.strategy = strategy]
           crec == [rec EXCEPT !.blks = [i \in 1..Len(ids) |-> store[ids[i]]]]
       IN IF ids = <<>>
          THEN /\ att' = [att EXCEPT ![a] = [rec EXCEPT !.pc = "rejected",
                                                         !.reason = "no_blocks"]]
               /\ error' = "no_blocks"
               /\ UNCHANGED <<isCompressing, result>>
          ELSE /\ result' = <<>>
               /\ IF prov = "claude-code"
                  THEN /\ att' = [att EXCEPT ![a] = [rec EXCEPT !.pc = "fetch",
                                      !.reads = [i \in 1..Len(ids) |-> <<>>]]]
                       /\ isCompressing' = TRUE
                       /\ error' = ""
                  ELSE IF strategy # "semantic"
                  THEN HookAwaitsFailure(a, crec, "strategy")
                  ELSE /\ att' = [att EXCEPT ![a] = [crec EXCEPT !.pc = "backend",
                                                                  !.calls = 1]]
                       /\ isCompressing' = TRUE
                       /\ error' = ""

\* the call the hook awaits settles with a failure: compressBlock returned
\* success false and the hook throws its message, compressText threw, or
\* the failure of a Convex action or mutation arrived; catch and finally
Settle(a) ==
    /\ UNCHANGED <<probe, confirm>>
    /\ att[a].pc = "settle"
    /\ UNCHANGED <<store, nextId, result>>
    /\ HookFails(a, att[a], att[a].reason)

(***************************************************************************)
(* Client-side backends (Ollama / OpenRouter) and the scoring after them.  *)
(***************************************************************************)
\* a compressBlock that scores quality before the ratio
ScoreBlock_QualityFirst(a, rec) ==
    LET orig == TokensOf(rec.blks[1])
        comp == estimateTokens(rec.out)
        q == estimateQuality(rec.blks[1].content, rec.out)
        r1 == [rec EXCEPT !.orig = orig, !.comp = comp, !.quality = q]
    IN IF QualityBelow(q)
       THEN HookFails(a, [r1 EXCEPT !.svc = ServiceScored(FALSE, "quality", orig, comp)],
                      "quality")
       ELSE IF RatioBelow(orig, comp)
       THEN HookFails(a, [r1 EXCEPT !.svc = ServiceScored(FALSE, "ratio", orig, comp)],
                      "ratio")
       ELSE /\ att' = [att EXCEPT ![a] = [r1 EXCEPT !.pc = "mutate",
                                                    !.svc = ServiceScored(TRUE, "", orig, comp)]]
            /\ UNCHANGED <<isCompressing, error>>

\* compressBlock after compressContent returned (lines 108-155)
ScoreBlock(a, rec) ==
    LET orig == TokensOf(rec.blks[1])
        comp == estimateTokens(rec.out)
        q == estimateQuality(rec.blks[1].content, rec.out)
        r1 == [rec EXCEPT !.orig = orig, !.comp = comp]
    IN IF RatioBelow(orig, comp)
       THEN HookFails(a, [r1 EXCEPT !.svc = ServiceScored(FALSE, "ratio", orig, comp)],
                      "ratio")
       ELSE IF QualityBelow(q)
       THEN HookFails(a, [r1 EXCEPT !.quality = q,
                                    !.svc = ServiceScored(FALSE, "quality", orig, comp)],
                      "quality")
       ELSE /\ att' = [att EXCEPT ![a] = [r1 EXCEPT !.quality = q, !.pc = "mutate",
                                                    !.svc = ServiceScored(TRUE, "", orig, comp)]]
            /\ UNCHANGED <<isCompressing, error>>

\* the hook without its ratio check before the merge mutation
MergeGate_NoRatioCheck(a, rec) ==
    /\ att' = [att EXCEPT ![a] = [rec EXCEPT !.pc = "insert"]]
    /\ UNCHANGED <<isCompressing, error>>

\* the hook's ratio check before blocks.compressAndMerge (lines 316-336)
MergeGate(a, rec) ==
    IF RatioBelow(rec.orig, rec.comp) THEN HookFails(a, rec, "ratio")
    ELSE /\ att' = [att EXCEPT ![a] = [rec EXCEPT !.pc = "insert"]]
         /\ UNCHANGED <<isCompressing, error>>

\* the result of a Convex call reaches the hook: after the merge action the
\* hook goes on to its ratio check and the merge mutation; after a mutation,
\* or the single-block action, it records the result
Resolve(a) ==
    /\ UNCHANGED <<probe, confirm>>
    /\ att[a].pc \in {"answer", "return"}
    /\ UNCHANGED <<store, nextId>>
    /\ IF att[a].pc = "answer"
       THEN MergeGate(a, att[a]) /\ UNCHANGED result
       ELSE HookSucceeds(a, att[a]) /\ UNCHANGED error

\* compressText after compressContent returned (lines 188-197)
ScoreText(a, rec) ==
    MergeGate(a, [rec EXCEPT !.orig = estimateTokens(combinedContent(rec.blks)),
                             !.comp = estimateTokens(rec.out)])

\* compressWithOllama / compressWithOpenRouter return compressed.trim()
BackendRespond(a, o) ==
    /\ UNCHANGED <<probe, confirm>>
    /\ att[a].pc = "backend"
    /\ UNCHANGED <<store, nextId, result>>
    /\ LET rec == [att[a] EXCEPT !.out = Trim(o)]
       IN IF rec.kind = "single" THEN ScoreBlock(a, rec) ELSE ScoreText(a, rec)

\* a service that falls back to the other network backend when one throws
BackendFail_Fallback(a) ==
    /\ UNCHANGED <<probe, confirm>>
    /\ att[a].pc = "backend"
    /\ UNCHANGED <<store, nextId, result>>
    /\ IF att[a].calls = 1
       THEN /\ att' = [att EXCEPT ![a].calls = 2,
                                  ![a].prov = IF @ = "ollama" THEN "openrouter"
                                              ELSE "ollama"]
            /\ UNCHANGED <<isCompressing, error>>
       ELSE HookFails(a, att[a], "backend_error")

\* a compressBlock without its catch: the adapter's error is raised to the hook
BackendFail_Raises(a) ==
    /\ UNCHANGED <<probe, confirm>>
    /\ att[a].pc = "backend"
    /\ UNCHANGED <<store, nextId, result>>
    /\ HookFails(a, att[a], "backend_error")

\* the adapter throws (transport failure, non-2xx, malformed body):
\* compressBlock's catch returns the failure and the hook throws its message;
\* compressText has no catch and the hook catches the adapter's error itself
BackendFail(a) ==
    /\ UNCHANGED <<probe, confirm>>
    /\ att[a].pc = "backend"
    /\ UNCHANGED <<store, nextId, result>>
    /\ IF att[a].kind = "single"
       THEN HookFails(a, [att[a] EXCEPT !.svc = ServiceFailure(att[a].blks[1],
                                                               "backend_error")],
                      "backend_error")
       ELSE HookFails(a, att[a], "backend_error")

(***************************************************************************)
(* Local-agent actions: compressWithClaudeCode and                         *)
(* compressAndMergeWithClaudeCode.                                         *)
(***************************************************************************)
\* what ctx.runQuery(api.blocks.get) returns for an id that is not there
NullBlock == [NewBlock(EmptyText) EXCEPT !.type = "null"]

\* the action up to Promise.race. Each block is read by a ctx.runQuery of its
\* own (one for a single block, one per id inside Promise.all for a merge),
\* served in any order; after the last read the action validates, builds
\* the prompt and starts the agent run and the 5-minute timer
Fetch(a, i) ==
    /\ UNCHANGED <<probe, confirm>>
    /\ att[a].pc = "fetch"
    /\ NoTxn
    /\ i \in 1..Len(att[a].ids)
    /\ att[a].reads[i] = <<>>
    /\ UNCHANGED <<store, nextId, result>>
    /\ LET ids == att[a].ids
           got == IF ids[i] \in DOMAIN store THEN store[ids[i]] ELSE NullBlock
           reads == [att[a].reads EXCEPT ![i] = <<got>>]
       IN IF \E k \in 1..Len(ids) : reads[k] = <<>>
          THEN /\ att' = [att EXCEPT ![a].reads = reads]
               /\ UNCHANGED <<isCompressing, error>>
          ELSE IF \E k \in 1..Len(ids) : reads[k][1].type = "null"
          THEN ActionFails(a, [att[a] EXCEPT !.reads = <<>>], "not_found")
          ELSE LET blks == [k \in 1..Len(ids) |-> reads[k][1]]
                   orig == SumTokens(blks)
                   rec == [att[a] EXCEPT !.blks = blks, !.orig = orig, !.reads = <<>>]
               IN IF orig < MIN_TOKENS_FOR_COMPRESSION
                  THEN ActionFails(a, rec, "too_small")
                  ELSE IF rec.kind = "single" /\ IsBlank(blks[1].content)
                  THEN ActionFails(a, rec, "no_content")
                  ELSE /\ att' = [att EXCEPT ![a] = [rec EXCEPT !.pc = "race",
                                                                 !.agent = "running",
                                                                 !.calls = 1]]
                       /\ UNCHANGED <<isCompressing, error>>

\* a text block of an assistant message arrives: compressedContent +=
\* block.text, for every text block of the run
AgentEmit(a, o) ==
    /\ UNCHANGED <<probe, confirm>>
    /\ att[a].agent = "running"
    /\ att[a].emitted < MaxMessages
    /\ att' = [att EXCEPT ![a].buf = Concat(att[a].buf, o), ![a].emitted = @ + 1]
    /\ UNCHANGED <<store, nextId, isCompressing, error, result>>

\* the code after Promise.race resolved (single: lines 200-234, merge: 403-445):
\* a throw goes through the action's catch to the client; the single-block
\* action calls blocks.compress itself, the merge action returns its result
AfterRace(a, rec0) ==
    LET out == Trim(rec0.buf)
        comp == estimateTokens(out)
        original == IF rec0.kind = "single" THEN rec0.blks[1].content
                    ELSE combinedContent(rec0.blks)
        rec == [rec0 EXCEPT !.out = out, !.comp = comp]
    IN IF TextLen(out) = 0 THEN ActionFails(a, rec, "empty_response")
       ELSE IF RatioBelow(rec.orig, comp) THEN ActionFails(a, rec, "ratio")
       ELSE LET r2 == [rec EXCEPT !.quality = estimateQualityServer(original, out)]
            IN /\ att' = [att EXCEPT ![a] = [r2 EXCEPT !.pc = IF rec.kind = "single"
                                                               THEN "mutate"
                                                               ELSE "answer"]]
               /\ UNCHANGED <<isCompressing, error>>

\* the agent run ends: the for-await loop is left
AgentFinish(a) ==
    /\ UNCHANGED <<probe, confirm>>
    /\ att[a].agent = "running"
    /\ UNCHANGED <<store, nextId, result>>
    /\ LET rec == [att[a] EXCEPT !.agent = "finished"]
       IN IF att[a].pc = "race"
          THEN AfterRace(a, rec)
          ELSE /\ att' = [att EXCEPT ![a] = rec]
               /\ UNCHANGED <<isCompressing, error>>

\* the agent run throws (process failure)
AgentThrow(a) ==
    /\ UNCHANGED <<probe, confirm>>
    /\ att[a].agent = "running"
    /\ UNCHANGED <<store, nextId, result>>
    /\ LET rec == [att[a] EXCEPT !.agent = "failed"]
       IN IF att[a].pc = "race"
          THEN ActionFails(a, rec, "backend_error")
          ELSE /\ att' = [att EXCEPT ![a] = rec]
               /\ UNCHANGED <<isCompressing, error>>

\* a timer that resolves the race instead of rejecting it
TimerFire_Resolves(a) ==
    /\ UNCHANGED <<probe, confirm>>
    /\ att[a].pc = "race"
    /\ UNCHANGED <<store, nextId, result>>
    /\ AfterRace(a, [att[a] EXCEPT !.timedOut = TRUE])

\* setTimeout(() => reject(new Error("Compression timed out ...")), 300000)
TimerFire(a) ==
    /\ UNCHANGED <<probe, confirm>>
    /\ att[a].pc = "race"
    /\ UNCHANGED <<store, nextId, result>>
    /\ ActionFails(a, [att[a] EXCEPT !.timedOut = TRUE], "timeout")

(***************************************************************************)
(* Mutations.                                                              *)
(***************************************************************************)
CompressArgs(rec) ==
    [blockId |-> rec.ids[1], compressedContent |-> rec.out,
     originalTokens |-> rec.orig, compressedTokens |-> rec.comp,
     strategy |-> rec.strategy]

\* a blocks.compress that leaves a block alone whose content is no longer the
\* content the caller read, and reports success
Mutate_KeepsNewer(a, ok) ==
    /\ UNCHANGED <<probe, confirm>>
    /\ att[a].pc = "mutate"
    /\ NoTxn
    /\ UNCHANGED <<nextId, result>>
    /\ LET id == att[a].ids[1]
       IN IF id \notin DOMAIN store \/ ~ok
          THEN /\ ActionFails(a, att[a], "mutation_failed")
               /\ UNCHANGED store
          ELSE /\ store' = IF store[id].content = att[a].blks[1].content
                           THEN [store EXCEPT ![id] =
                                    CompressPatch(store[id], CompressArgs(att[a]))]
                           ELSE store
               /\ att' = [att EXCEPT ![a].pc = "return", ![a].patched = {id}]
               /\ UNCHANGED <<isCompressing, error>>

\* blocks.compress commits, or throws; either outcome then travels to the
\* caller (through the action's return or catch on the agent path)
Mutate(a, ok) ==
    /\ UNCHANGED <<probe, confirm>>
    /\ att[a].pc = "mutate"
    /\ NoTxn
    /\ UNCHANGED <<nextId, result>>
    /\ LET id == att[a].ids[1]
       IN IF id \notin DOMAIN store \/ ~ok
          THEN /\ ActionFails(a, att[a], "mutation_failed")
               /\ UNCHANGED store
          ELSE /\ store' = [store EXCEPT ![id] = CompressPatch(store[id], CompressArgs(att[a]))]
               /\ att' = [att EXCEPT ![a].pc = "return", ![a].patched = {id}]
               /\ UNCHANGED <<isCompressing, error>>

MergeArgs(rec) ==
    [blockIds |-> rec.ids, compressedContent |-> rec.out,
     originalTokens |-> rec.orig, compressedTokens |-> rec.comp,
     strategy |-> rec.strategy, targetType |-> "note"]

\* a merge mutation that deletes the sources before it inserts
MergeInsert_DeleteFirst(a, ok) ==
    /\ UNCHANGED <<probe, confirm>>
    /\ att[a].pc = "insert"
    /\ NoTxn
    /\ ok
    /\ Range(att[a].ids) \subseteq DOMAIN store
    /\ store' = [i \in DOMAIN store \ {att[a].ids[1]} |-> store[i]]
    /\ att' = [att EXCEPT ![a].pc = "crashed", ![a].deleted = {att[a].ids[1]}]
    /\ UNCHANGED <<nextId, isCompressing, error, result>>

\* a merge mutation that goes on to the deletes when its insert failed
MergeInsert_IgnoreFailure(a, ok) ==
    /\ UNCHANGED <<probe, confirm>>
    /\ att[a].pc = "insert"
    /\ NoTxn
    /\ ~ok
    /\ Range(att[a].ids) \subseteq DOMAIN store
    /\ att' = [att EXCEPT ![a].pc = "delete", ![a].reason = "insert_failed",
                          ![a].todo = att[a].ids, ![a].pre = store]
    /\ UNCHANGED <<store, nextId, isCompressing, error, result>>

\* blocks.compressAndMerge: verify the blocks exist, insert the merged block
MergeInsert(a, ok) ==
    /\ UNCHANGED <<probe, confirm>>
    /\ att[a].pc = "insert"
    /\ NoTxn
    /\ UNCHANGED result
    /\ IF \E i \in 1..Len(att[a].ids) : att[a].ids[i] \notin DOMAIN store
       THEN /\ ActionFails(a, att[a], "not_found")
            /\ UNCHANGED <<store, nextId>>
       ELSE IF ~ok
       THEN /\ ActionFails(a, [att[a] EXCEPT !.pre = store], "insert_failed")
            /\ UNCHANGED <<store, nextId>>
       ELSE /\ store' = store @@ (nextId :> MergedBlock(MergeArgs(att[a])))
            /\ nextId' = nextId + 1
            /\ att' = [att EXCEPT ![a].pc = "delete", ![a].inserted = nextId,
                                  ![a].todo = att[a].ids, ![a].pre = store]
            /\ UNCHANGED <<isCompressing, error>>

\* a merge mutation that returns after deleting its first source only
MergeDelete_FirstOnly(a) ==
    /\ UNCHANGED <<probe, confirm>>
    /\ att[a].pc = "delete"
    /\ UNCHANGED <<nextId, isCompressing, error, result>>
    /\ LET id == Head(att[a].todo)
           rec == [att[a] EXCEPT !.deleted = @ \cup {id}, !.todo = <<>>]
       IN /\ store' = [i \in DOMAIN store \ {id} |-> store[i]]
          /\ att' = [att EXCEPT ![a] = [rec EXCEPT !.pc = "return", !.pre = NoStore]]

\* blocks.compressAndMerge: ctx.db.delete of the next source block; after the
\* last one the mutation commits and its result travels to the hook
MergeDelete(a) ==
    /\ UNCHANGED <<probe, confirm>>
    /\ att[a].pc = "delete"
    /\ UNCHANGED <<nextId, isCompressing, error, result>>
    /\ LET id == Head(att[a].todo)
           rec == [att[a] EXCEPT !.deleted = @ \cup {id}, !.todo = Tail(@)]
       IN /\ store' = [i \in DOMAIN store \ {id} |-> store[i]]
          /\ att' = [att EXCEPT ![a] = IF rec.todo = <<>>
                                       THEN [rec EXCEPT !.pc = "return", !.pre = NoStore]
                                       ELSE rec]

(***************************************************************************)
(* Crash in the middle of the insert/delete sequence of a merge.           *)
(***************************************************************************)

Crash(a) ==
    /\ UNCHANGED <<probe, confirm>>
    /\ InTxn(a)
    /\ att' = [att EXCEPT ![a].pc = "crashed", ![a].pre = NoStore]
    /\ UNCHANGED <<store, nextId, isCompressing, error, result>>

\* the lists of blocks a caller passes to compressAndMerge: distinct blocks
\* of the store, in any order
BlockLists ==
    {ids \in UNION {[1..n -> BlockIds] : n \in 0..MaxBlocks} :
        \A i, j \in 1..Len(ids) : ids[i] = ids[j] => i = j}

\* useCompression.compressZone (deprecated): setError(message), nothing else
compressZone ==
    /\ error' = "deprecated"
    /\ UNCHANGED <<store, nextId, att, isCompressing, result, probe, confirm>>

Next ==
    \/ \E c \in BlockContents : Create(c)
    \/ \E id \in BlockIds : Remove(id)
    \/ \E a \in Att : Settle(a)
    \/ \E a \in Att, id \in BlockIds, s \in StrategiesTried, ls \in LsValues :
          StartSingle(a, id, s, ls)
    \/ \E a \in Att, ids \in BlockLists, s \in StrategiesTried, ls \in LsValues :
          StartMerge(a, ids, s, ls)
    \/ compressZone
    \/ \E a \in Att : Resolve(a)
    \/ \E a \in Att, o \in BackendOutputs : BackendRespond(a, o)
    \/ \E a \in Att : BackendFail(a)
    \/ \E a \in Att, i \in 1..MaxBlocks : Fetch(a, i)
    \/ \E a \in Att, o \in AgentTexts : AgentEmit(a, o)
    \/ \E a \in Att : AgentFinish(a)
    \/ \E a \in Att : AgentThrow(a)
    \/ \E a \in Att : TimerFire(a)
    \/ \E a \in Att, ok \in BOOLEAN : Mutate(a, ok)
    \/ \E a \in Att, ok \in BOOLEAN : MergeInsert(a, ok)
    \/ \E a \in Att : MergeDelete(a)
    \/ \E a \in Att : Crash(a)

Spec == Init /\ [][Next]_vars

\* the steps the program schedules itself: the 5-minute timer of the agent
\* actions and the Convex functions, which run to completion once called.
\* No backend, agent run, user or crash is obliged to act.
Scheduled(a) ==
    \/ TimerFire(a)
    \/ Settle(a)
    \/ Resolve(a)
    \/ \E i \in 1..MaxBlocks : Fetch(a, i)
    \/ \E ok \in BOOLEAN : Mutate(a, ok)
    \/ \E ok \in BOOLEAN : MergeInsert(a, ok)
    \/ MergeDelete(a)

FairSpec == Spec /\ \A a \in Att : WF_vars(Scheduled(a))

(***************************************************************************)
(* Two calls through one hook instance, on a store of one block: the       *)
(* second may start while the first is in flight, or after it ended.       *)
(***************************************************************************)
Calls == {"a1", "a2"}

TwoCallInit ==
    /\ store = <<NewBlock(BigText)>>
    /\ nextId = 2
    /\ att = [a \in Calls |-> IdleAtt]
    /\ isCompressing = FALSE
    /\ error = ""
    /\ result = <<>>
    /\ probe = NoProbe
    /\ confirm = IdleConfirm

TwoCallNext ==
    \/ \E a \in Calls, s \in StrategiesTried, ls \in {"ollama", ""} : StartSingle(a, 1, s, ls)
    \/ \E a \in Calls : StartMerge(a, <<>>, "semantic", "ollama")
    \/ \E a \in Calls : Settle(a)
    \/ \E a \in Calls : Resolve(a)
    \/ \E a \in Calls, o \in {GoodOut, SmallOut} : BackendRespond(a, o)
    \/ \E a \in Calls : BackendFail(a)
    \/ \E a \in Calls : Fetch(a, 1)
    \/ \E a \in Calls, o \in {GoodOut, SmallOut} : AgentEmit(a, o)
    \/ \E a \in Calls : AgentFinish(a)
    \/ \E a \in Calls : AgentThrow(a)
    \/ \E a \in Calls : TimerFire(a)
    \/ \E a \in Calls, ok \in BOOLEAN : Mutate(a, ok)
    \/ compressZone

TwoCallSpec == TwoCallInit /\ [][TwoCallNext]_vars

(***************************************************************************)
(* useConfirmDelete: the confirmation dialog of a destructive delete.      *)
(***************************************************************************)
RemoveAt(q, i) == [k \in 1..(Len(q) - 1) |-> IF k < i THEN q[k] ELSE q[k + 1]]

\* requestDelete(item): setItemToDelete(item)
requestDelete(item) ==
    /\ confirm' = [confirm EXCEPT !.itemToDelete = item,
                                  !.last = [op |-> "request", item |-> item]]
    /\ UNCHANGED <<store, nextId, att, isCompressing, error, result, probe>>

\* React renders the hook again after a state update: the values the hook
\* returns, and the ones its callbacks close over (useCallback with deps
\* [isDeleting] and [itemToDelete, onDelete]), become the current state
Render ==
    /\ confirm.shown # [itemToDelete |-> confirm.itemToDelete,
                        isDeleting |-> confirm.isDeleting]
    /\ confirm' = [confirm EXCEPT !.shown = [itemToDelete |-> confirm.itemToDelete,
                                             isDeleting |-> confirm.isDeleting],
                                  !.last = [op |-> "render", item |-> ""]]
    /\ UNCHANGED <<store, nextId, att, isCompressing, error, result, probe>>

\* cancelDelete: if (!isDeleting) setItemToDelete(null), isDeleting being
\* the value of the last render
cancelDelete ==
    /\ confirm' = [confirm EXCEPT !.itemToDelete = IF confirm.shown.isDeleting
                                                   THEN @ ELSE "",
                                  !.last = [op |-> "cancel", item |-> confirm.itemToDelete]]
    /\ UNCHANGED <<store, nextId, att, isCompressing, error, result, probe>>

\* confirmDelete up to its await, itemToDelete being the value of the last
\* render: return when it is null, else setIsDeleting(true) and call
\* onDelete(itemToDelete)
confirmDelete ==
    /\ confirm' = IF confirm.shown.itemToDelete = ""
                  THEN [confirm EXCEPT !.last = [op |-> "confirm", item |-> ""]]
                  ELSE [confirm EXCEPT !.isDeleting = TRUE,
                                       !.running = Append(@, confirm.shown.itemToDelete),
                                       !.last = [op |-> "confirm",
                                                 item |-> confirm.shown.itemToDelete]]
    /\ UNCHANGED <<store, nextId, att, isCompressing, error, result, probe>>

\* onDelete resolves: setItemToDelete(null); finally setIsDeleting(false)
DeleteResolves(i) ==
    /\ i \in 1..Len(confirm.running)
    /\ confirm' = [confirm EXCEPT !.itemToDelete = "",
                                  !.isDeleting = FALSE,
                                  !.running = RemoveAt(@, i),
                                  !.deleted = @ \cup {confirm.running[i]},
                                  !.last = [op |-> "resolved", item |-> confirm.running[i]]]
    /\ UNCHANGED <<store, nextId, att, isCompressing, error, result, probe>>

\* onDelete rejects: catch logs; finally setIsDeleting(false)
DeleteRejects(i) ==
    /\ i \in 1..Len(confirm.running)
    /\ confirm' = [confirm EXCEPT !.isDeleting = FALSE,
                                  !.running = RemoveAt(@, i),
                                  !.last = [op |-> "rejected", item |-> confirm.running[i]]]
    /\ UNCHANGED <<store, nextId, att, isCompressing, error, result, probe>>

DeleteInit ==
    /\ store = NoStore
    /\ nextId = 1
    /\ att = [a \in Att |-> IdleAtt]
    /\ isCompressing = FALSE
    /\ error = ""
    /\ result = <<>>
    /\ probe = NoProbe
    /\ confirm = IdleConfirm

\* the calls of the user interface and the outcomes of onDelete; the user
\* confirms while fewer than MaxDeletes onDelete calls are in flight
DeleteNext ==
    \/ \E item \in Items : requestDelete(item)
    \/ Render
    \/ cancelDelete
    \/ Len(confirm.running) < MaxDeletes /\ confirmDelete
    \/ \E i \in 1..MaxDeletes : DeleteResolves(i)
    \/ \E i \in 1..MaxDeletes : DeleteRejects(i)

DeleteSpec == DeleteInit /\ [][DeleteNext]_vars

(***************************************************************************)
(* The scoring functions on their own: the ratio check and estimateQuality *)
(* applied to inputs drawn from bounded sets.                              *)
(***************************************************************************)
\* token counts around the floor of the ratio, with the zero cases
ProbeOriginals == {0, 100, 120, 1499, 1500, 1501}
ProbeCompressed == {0, 1, 83, 84, 100, 101, 1249, 1250, 1251}

\* texts of at most MaxWords words
ProbeTexts ==
    {[toks |-> w, extra |-> 0, lead |-> 0, ws |-> 0] :
        w \in UNION {[1..n -> Vocab] : n \in 0..MaxWords}}

ScoringInit ==
    /\ store = NoStore
    /\ nextId = 1
    /\ att = [a \in Att |-> IdleAtt]
    /\ isCompressing = FALSE
    /\ error = ""
    /\ result = <<>>
    /\ probe = NoProbe
    /\ confirm = IdleConfirm

\* compressionRatio = originalTokens / compressedTokens;
\* compressionRatio < MIN_COMPRESSION_RATIO
ApplyRatio(orig, comp) ==
    /\ probe = NoProbe
    /\ probe' = [fn |-> "ratio", orig |-> orig, comp |-> comp,
                 rejected |-> RatioBelow(orig, comp)]
    /\ UNCHANGED <<store, nextId, att, isCompressing, error, result, confirm>>

\* estimateQuality(original, compressed), of the client and of the action
ApplyQuality(original, compressed) ==
    /\ probe = NoProbe
    /\ probe' = [fn |-> "quality", original |-> original, compressed |-> compressed,
                 client |-> estimateQuality(original, compressed),
                 server |-> estimateQualityServer(original, compressed)]
    /\ UNCHANGED <<store, nextId, att, isCompressing, error, result, confirm>>

\* runs of zero to four characters that hold no word
ProbeSuffixes == {[toks |-> <<>>, extra |-> n, lead |-> 0, ws |-> 0] : n \in 0..4}

\* estimateTokens of a text, of the text repeated, and of the text with more
\* characters after it
ApplyEstimate(text, suffix) ==
    /\ probe = NoProbe
    /\ probe' = [fn |-> "estimate", text |-> text,
                 longer |-> Concat(text, suffix),
                 tokens |-> estimateTokens(text),
                 doubled |-> estimateTokens(Concat(text, text)),
                 tokensLonger |-> estimateTokens(Concat(text, suffix))]
    /\ UNCHANGED <<store, nextId, att, isCompressing, error, result, confirm>>

\* localStorage as the settings module reads it; "" stands for a missing or
\* empty item, which the getters treat alike
ApiKeys == {"", "sk-or-A", "sk-or-B"}

LocalStorages ==
    [key : ApiKeys, model : {"", "m1"}, url : {"", "u1"},
     ollamaModel : {"", "o1"}, provider : LsValues]

OrDefault(item, default) == IF item # "" THEN item ELSE default

\* getAllSettings: "" stands for null
getAllSettings(ls) ==
    [openrouterApiKey |-> IF ls.key # "" THEN "[CONFIGURED]" ELSE "",
     openrouterModel |-> OrDefault(ls.model, "anthropic/claude-sonnet-4"),
     ollamaUrl |-> OrDefault(ls.url, "http://localhost:11434"),
     ollamaModel |-> OrDefault(ls.ollamaModel, "llama3.2:latest"),
     compressionProvider |-> getProvider(ls.provider)]

\* openrouter.streamChat: the request it posts, with the key of the settings
\* as bearer credential
OpenRouterRequest(ls) ==
    [authorization |-> <<"Bearer", ls.key>>,
     model |-> OrDefault(ls.model, "anthropic/claude-sonnet-4"),
     stream |-> TRUE]

\* the message of the error openrouter.streamChat throws when the request
\* is answered with an error status: "OpenRouter error: 401"
OpenRouterError(request, status) == <<"OpenRouter error", status>>

\* the message of the error ollama.streamChat throws when the request fails
OllamaError == <<"Ollama error", "Failed to fetch">>

\* the message of the Error with which a rejected blocks.compress or
\* blocks.compressAndMerge call reaches its caller
MutationError == <<"mutation failed">>

\* the message of the error a failed agent run throws
AgentError == <<"Claude Code process exited with code", "1">>

\* how one call of the hook ends, with the numbers its messages show: the
\* token counts behind the ratio and the quality percentage
LogOutcomes ==
    {[why |-> "success", orig |-> 120, comp |-> 60, pct |-> 80],
     [why |-> "ratio", orig |-> 120, comp |-> 110, pct |-> 0],
     [why |-> "quality", orig |-> 120, comp |-> 60, pct |-> 40],
     [why |-> "mutation", orig |-> 120, comp |-> 60, pct |-> 80],
     [why |-> "too_small", orig |-> 50, comp |-> 0, pct |-> 0],
     [why |-> "no_blocks", orig |-> 0, comp |-> 0, pct |-> 0],
     [why |-> "not_found", orig |-> 0, comp |-> 0, pct |-> 0]}
    \cup {[why |-> w, orig |-> 120, comp |-> 0, pct |-> 0] :
            w \in {"no_content", "strategy", "backend", "timeout", "empty", "unknown"}}

\* the ends a call can take under the stored provider, for a single block or
\* a merge. compressAndMerge returns on an empty list; the action reads the
\* blocks itself, validates them (a single block's tokens and content, a
\* merge's summed tokens), runs the agent against the timer and refuses an
\* empty answer, whatever the strategy; on the client path compressBlock
\* validates a single block and scores quality, compressText does neither,
\* and compressContent throws for a strategy other than "semantic"
CanEnd(ls, kind, strategy, o) ==
    LET client == getProvider(ls.provider) # "claude-code"
    IN CASE o.why = "no_blocks" -> kind = "merge"
         [] o.why \in {"not_found", "timeout", "empty"} -> ~client
         [] o.why = "too_small" -> kind = "single" \/ ~client
         [] o.why = "no_content" -> kind = "single"
         [] o.why = "strategy" -> client /\ strategy # "semantic"
         [] o.why = "quality" -> client /\ kind = "single" /\ strategy = "semantic"
         [] OTHER -> client => strategy = "semantic"

\* the message of a failed CompressionService call (compressBlock's error
\* string, or the error compressText lets through): the template of the
\* message, then the values interpolated into it
ServiceMessage(ls, provider, strategy, o) ==
    CASE o.why = "too_small" ->
           <<"Block has only tokens", ToString(o.orig),
             ToString(MIN_TOKENS_FOR_COMPRESSION)>>
      [] o.why = "no_content" -> <<"Block has no content">>
      [] o.why = "strategy" ->
           IF strategy \in {"structural", "statistical"}
           THEN <<"compression not yet implemented">>
           ELSE <<"Unknown strategy", strategy>>
      [] o.why = "backend" ->
           IF provider = "openrouter"
           THEN OpenRouterError(OpenRouterRequest(ls), "401")
           ELSE IF provider = "ollama" THEN OllamaError
           ELSE IF provider = "claude-code"
           THEN <<"Claude Code compression must be called via Convex action">>
           ELSE <<"Unknown provider", provider>>
      [] o.why = "ratio" ->
           <<"Compression ratio is below minimum", ToString(o.orig), ToString(o.comp)>>
      [] o.why = "quality" -> <<"Compression quality is too low", ToString(o.pct)>>
      [] OTHER -> <<"Unknown error">>

\* the message of the Error compressWithClaudeCode or
\* compressAndMergeWithClaudeCode throws: as thrown before the try, and with
\* the catch's prefix for what is thrown inside it (the single-block action
\* calls blocks.compress inside its try)
ActionMessage(kind, o) ==
    CASE o.why = "not_found" ->
           IF kind = "single" THEN <<"Block not found">>
           ELSE <<"One or more blocks not found">>
      [] o.why = "too_small" ->
           <<IF kind = "single" THEN "Block has only tokens"
             ELSE "Combined blocks have only tokens",
             ToString(o.orig), ToString(MIN_TOKENS_FOR_COMPRESSION)>>
      [] o.why = "no_content" -> <<"Block has no content">>
      [] OTHER ->
           <<"Claude Code compression failed">> \o
           (CASE o.why = "timeout" -> <<"Compression timed out after 5 minutes">>
              [] o.why = "empty" -> <<"Claude Code returned empty response">>
              [] o.why = "ratio" ->
                   <<"Compression ratio is below minimum",
                     ToString(o.orig), ToString(o.comp)>>
              [] o.why = "mutation" -> MutationError
              [] OTHER -> AgentError)

\* err.message as the hook's catch reads it. The hook calls its mutation
\* itself on the client path and for a merge; a value thrown that is not an
\* Error is logged as "Unknown error". The merge's own throws ("Compression
\* action failed", and the ratio message after an action) are not reached:
\* the action returns success true with a ratio it has checked, or throws
ErrorMessage(ls, kind, strategy, o) ==
    LET provider == getProvider(ls.provider)
    IN IF o.why = "unknown" THEN <<"Unknown error">>
       ELSE IF o.why = "mutation" /\ (provider # "claude-code" \/ kind = "merge")
       THEN MutationError
       ELSE IF provider = "claude-code" THEN ActionMessage(kind, o)
       ELSE ServiceMessage(ls, provider, strategy, o)

\* a hook whose provider line also prints the stored API key
HookLog_WithKey(ls, kind, strategy, o) ==
    LET provider == getProvider(ls.provider)
    IN IF o.why = "no_blocks" THEN <<>>
       ELSE << <<IF kind = "single" THEN "1" ELSE "2", strategy>>,
               <<provider, ls.key>>,
               IF provider = "claude-code" THEN <<>> ELSE <<provider>>,
               IF o.why = "success"
               THEN <<ToString(o.orig), ToString(o.comp), ToString(o.orig - o.comp)>>
               ELSE ErrorMessage(ls, kind, strategy, o) >>

\* the lines compressSingle / compressAndMerge write to the console in one
\* call, each as the values interpolated into it: the block id (or the block
\* count) and the strategy; the provider; the mode line, which names the
\* provider on the client path; then the ratio and the tokens saved, or, from
\* the catch, the message of the error. compressAndMerge of an empty list
\* returns before its first console line
HookLog(ls, kind, strategy, o) ==
    LET provider == getProvider(ls.provider)
    IN IF o.why = "no_blocks" THEN <<>>
       ELSE << <<IF kind = "single" THEN "1" ELSE "2", strategy>>,
               <<provider>>,
               IF provider = "claude-code" THEN <<>> ELSE <<provider>>,
               IF o.why = "success"
               THEN <<ToString(o.orig), ToString(o.comp), ToString(o.orig - o.comp)>>
               ELSE ErrorMessage(ls, kind, strategy, o) >>

\* the mode the hook takes: the local-agent action or the client service
Mode(ls) == IF getProvider(ls) = "claude-code" THEN "server" ELSE "client"

\* getAllSettings, and the console lines of one call of the hook, under two
\* localStorage states that differ at most in the API key
ApplySettings(ls, otherKey, kind, strategy, o) ==
    LET other == [ls EXCEPT !.key = otherKey]
    IN /\ probe = NoProbe
       /\ CanEnd(ls, kind, strategy, o)
       /\ probe' = [fn |-> "settings", ls |-> ls, other |-> other,
                    kind |-> kind, strategy |-> strategy, outcome |-> o,
                    all |-> getAllSettings(ls),
                    allOther |-> getAllSettings(other),
                    log |-> HookLog(ls, kind, strategy, o),
                    logOther |-> HookLog(other, kind, strategy, o)]
       /\ UNCHANGED <<store, nextId, att, isCompressing, error, result, confirm>>

\* the routing decision of compressSingle and compressAndMerge under a value
\* of the CLAUDE_CODE_ENABLED flag and a stored provider setting
ApplyRoute(flag, ls) ==
    /\ probe = NoProbe
    /\ probe' = [fn |-> "route", flag |-> flag, ls |-> ls, mode |-> Mode(ls)]
    /\ UNCHANGED <<store, nextId, att, isCompressing, error, result, confirm>>

\* extractImportantWords of a text, in the client's and in the action's copy
ApplyExtract(text) ==
    /\ probe = NoProbe
    /\ probe' = [fn |-> "extract", text |-> text,
                 client |-> extractImportantWords(text),
                 server |-> extractImportantWordsServer(text)]
    /\ UNCHANGED <<store, nextId, att, isCompressing, error, result, confirm>>

\* each function is applied once, to inputs not yet probed
ScoringNext ==
    \/ /\ probe = NoProbe
       /\ \E o \in ProbeOriginals, c \in ProbeCompressed : ApplyRatio(o, c)
    \/ /\ probe = NoProbe
       /\ \E t \in ProbeTexts, o \in BackendOutputs : ApplyQuality(t, Trim(o))
    \/ /\ probe = NoProbe
       /\ \E t \in ProbeTexts, u \in ProbeSuffixes : ApplyEstimate(t, u)
    \/ /\ probe = NoProbe
       /\ \E t \in ProbeTexts : ApplyExtract(t)
    \/ /\ probe = NoProbe
       /\ \E ls \in LocalStorages, k \in ApiKeys, kind \in {"single", "merge"},
             st \in Strategies, o \in LogOutcomes :
             ApplySettings(ls, k, kind, st, o)
    \/ /\ probe = NoProbe
       /\ \E flag \in BOOLEAN, ls \in LsValues : ApplyRoute(flag, ls)

ScoringSpec == ScoringInit /\ [][ScoringNext]_vars

(***************************************************************************)
(* What a call did, read off its record.                                   *)
(***************************************************************************)
\* the call made no store write: no patch, no insert, no delete
NoWrites(a) ==
    att[a].patched = {} /\ att[a].inserted = 0 /\ att[a].deleted = {}

\* the backend was never invoked by the call
NoBackend(a) == att[a].calls = 0 /\ att[a].agent = "none"

\* the block the call validated fails the floor or is blank
Unsuitable(b) ==
    TokensOf(b) < MIN_TOKENS_FOR_COMPRESSION \/ IsBlank(b.content)

\* the backend call of the attempt failed: it threw, it timed out, or what
\* it returned is empty after trim
BackendFailed(a) ==
    \/ att[a].reason \in {"backend_error", "timeout", "empty_response"}
    \/ /\ att[a].calls = 1
       /\ att[a].pc \in {"answer", "mutate", "insert", "delete", "return", "accepted",
                       "crashed"}
       /\ TextLen(att[a].out) = 0

\* the call has failed: the failure is on its way to the hook's catch, or
\* has reached it
Failed(a) == att[a].pc \in {"settle", "rejected"}

\* the error the hook shows is the message m of the call, until a later
\* compressZone replaces it with its deprecation notice
HookError(m) == error \in {m, "deprecated"}

(***************************************************************************)
(* Claims.                                                                 *)
(***************************************************************************)

\* C1: a single-block call whose block has fewer than 100 tokens or blank
\* content never invokes a backend, never writes to the store and ends in a
\* validation failure, on the client path and on the local-agent path. On
\* either path the failure is the answer of the service or of the action,
\* which the hook is awaiting ("settle") or has received ("rejected").
C1_UnsuitableBlockRejected ==
    \A a \in Att :
        (att[a].kind = "single" /\ att[a].blks # <<>> /\ Unsuitable(att[a].blks[1]))
        => /\ NoBackend(a)
           /\ NoWrites(a)
           /\ Failed(a)
           /\ att[a].reason \in {"too_small", "no_content"}

\* C1 witness: the local-agent action rejected a whitespace-only block and the
\* client service rejects a small one in the same way
C1_Witness ==
    \E a \in Att :
        /\ att[a].kind = "single"
        /\ att[a].pc = "rejected"
        /\ att[a].blks # <<>>
        /\ \/ att[a].prov = "claude-code" /\ att[a].reason = "no_content"
           \/ att[a].prov = "ollama" /\ att[a].reason = "too_small"

\* C2 (as stated): when the backend call of a merge failed (transport error,
\* timeout, empty response) the call has inserted no block and has deleted
\* or patched none.
C2_FailedBackendLeavesStore ==
    \A a \in Att :
        (att[a].kind = "merge" /\ BackendFailed(a)) => NoWrites(a)

\* C3: an attempt whose ratio originalTokens / compressedTokens is below 1.2
\* is rejected with the ratio reason and has made no store write, on all
\* four paths; the failure of an action reaches the hook one step later.
C3_LowRatioRejected ==
    \A a \in Att :
        RatioBelow(att[a].orig, att[a].comp)
        => /\ Failed(a)
           /\ att[a].reason = "ratio"
           /\ NoWrites(a)

\* C3 witness: a merge was rejected for its ratio
C3_Witness ==
    \E a \in Att :
        /\ att[a].kind = "merge"
        /\ RatioBelow(att[a].orig, att[a].comp)
        /\ att[a].pc = "rejected"

\* C4 (as stated): an attempt whose quality score is below 0.6 is never
\* accepted and makes no store write.
C4_LowQualityRejected ==
    \A a \in Att :
        (att[a].quality # <<0, 0>> /\ QualityBelow(att[a].quality))
        => att[a].pc # "accepted" /\ NoWrites(a)

\* C5: a merge deletes a source block only when the merged block it
\* inserted is in the store, and the block is still there after the delete;
\* a crash in the middle of the sequence leaves a store that holds the merged
\* block. (Other clients may remove any block once the mutation is over.)
C5_InsertBeforeDelete ==
    [][\A a \in Att :
          /\ att'[a].deleted # att[a].deleted
             => /\ att[a].inserted # 0
                /\ att[a].inserted \in DOMAIN store
                /\ store[att[a].inserted].content = att[a].out
                /\ att[a].inserted \in DOMAIN store'
          /\ (att'[a].pc = "crashed" /\ att[a].pc # "crashed")
             => /\ att'[a].inserted # 0
                /\ att'[a].inserted \in DOMAIN store']_vars

\* C5 witness: a merge crashed after deleting one of its two sources
C5_Witness ==
    \E a \in Att :
        /\ att[a].pc = "crashed"
        /\ att[a].deleted # {}
        /\ att[a].todo # <<>>

\* C6: when the insert of the merged block fails, no source block is deleted
\* and the store is the one the mutation found, every source still in it: no
\* step of a call whose insert failed changes the store, and the call has
\* written nothing.
C6_FailedInsertDeletesNothing ==
    [][\A a \in Att :
          (att'[a].reason = "insert_failed" /\ att'[a] # att[a])
          => /\ store' = store
             /\ att'[a].patched = {}
             /\ att'[a].inserted = 0
             /\ att'[a].deleted = {}
             /\ att[a].reason # "insert_failed"
                => /\ att[a].pc = "insert"
                   /\ store' = att'[a].pre
                   /\ Range(att'[a].ids) \subseteq DOMAIN store']_vars

\* C6 witness: the insert of a merge of two blocks failed
C6_Witness ==
    \E a \in Att :
        /\ att[a].reason = "insert_failed"
        /\ att[a].pc = "rejected"
        /\ Len(att[a].ids) = 2

\* the store after an accepted merge, against the store before its insert
MergeReplaced(pre, post, rec) ==
    /\ DOMAIN post \ DOMAIN pre = {rec.inserted}
    /\ post[rec.inserted].content = rec.out
    /\ post[rec.inserted].isCompressed
    /\ post[rec.inserted].mergedFromCount = Len(rec.ids)
    /\ Range(rec.ids) \cap DOMAIN post = {}
    /\ \A id \in DOMAIN pre \ Range(rec.ids) : id \in DOMAIN post /\ post[id] = pre[id]

\* C7: the step that completes the mutation of a merge of N blocks, the
\* delete of its last source, leaves exactly
\* one new block, with the compacted content, isCompressed = true and
\* mergedFromCount = N; no source block remains and every other block is
\* as it was.
C7_MergeReplacesSources ==
    [][\A a \in Att :
          (att[a].pc = "delete" /\ att'[a].pc = "return")
          => MergeReplaced(att[a].pre, store', att'[a])]_vars

\* C7 witness: a merge of two blocks was accepted
C7_Witness ==
    \E a \in Att :
        /\ att[a].kind = "merge"
        /\ att[a].pc = "accepted"
        /\ Len(att[a].ids) = 2
        /\ att[a].deleted = Range(att[a].ids)

\* C8: no step changes the originalTokens of a block once it is set.
C8_OriginalTokensKept ==
    [][\A id \in DOMAIN store \cap DOMAIN store' :
          store[id].originalTokens # 0
          => store'[id].originalTokens = store[id].originalTokens]_vars

\* C8 witness: an already compressed block was compressed again, with
\* another originalTokens argument than the one the block keeps
C8_Witness ==
    \E a \in Att :
        /\ att[a].kind = "single"
        /\ att[a].pc = "accepted"
        /\ att[a].blks[1].originalTokens # 0
        /\ att[a].patched = {att[a].ids[1]}
        /\ att[a].ids[1] \in DOMAIN store
        /\ store[att[a].ids[1]].originalTokens # att[a].orig

\* C9: when the 5-minute timer fired first, the attempt is rejected with
\* the timeout as its reason and has made no store write; once the failure
\* has reached the hook, the hook shows it.
C9_TimeoutIsFailure ==
    \A a \in Att :
        att[a].timedOut
        => /\ Failed(a)
           /\ att[a].reason = "timeout"
           /\ att[a].pc = "rejected" => HookError("timeout")
           /\ result = <<>>
           /\ NoWrites(a)

\* C9 witness: the timer fired after the agent had produced its text, and
\* the run has ended since
C9_Witness ==
    \E a \in Att :
        /\ att[a].timedOut
        /\ att[a].emitted > 0
        /\ att[a].agent = "finished"

\* C10 (as stated): once the timeout has been reported the agent run no
\* longer executes.
C10_TimeoutStopsAgent ==
    \A a \in Att : att[a].timedOut => att[a].agent # "running"

\* C11 (as stated): every attempt that has invoked its backend eventually
\* ends in Accepted or Rejected (a crash of the process aside), also when the
\* backend never responds.
C11_AttemptEnds ==
    \A a \in Att :
        (att[a].pc \in {"backend", "race"})
        ~> (att[a].pc \in {"accepted", "rejected", "crashed"})

\* C12: once an attempt has invoked its backend, no step invokes a backend
\* again or changes the backend of the attempt, and a backend failure ends
\* the attempt: one backend, chosen at entry, called at most once.
C12_OneBackendCall ==
    [][\A a \in Att :
          /\ att[a].calls # 0
             => att'[a].calls = att[a].calls /\ att'[a].prov = att[a].prov
          /\ att'[a].calls <= 1
          /\ (att[a].pc \in {"backend", "race"} /\ att'[a].reason = "backend_error")
             => att'[a].pc \in {"settle", "rejected"}
          /\ att[a].reason = "backend_error"
             => att'[a].pc \in {"settle", "rejected"}]_vars

\* C12 witness: the one backend call of an attempt failed and the attempt
\* ended with that single call, on a network backend
C12_Witness ==
    \E a \in Att :
        /\ att[a].reason = "backend_error"
        /\ att[a].prov = "openrouter"
        /\ att[a].calls = 1
        /\ att[a].pc = "rejected"

\* C13: when the backend adapter of a client single-block attempt raised,
\* compressBlock has returned a result with success = false, the adapter's
\* message as error and tokensSaved = 0, and the attempt is rejected and has
\* made no store write.
C13_AdapterErrorWrapped ==
    \A a \in Att :
        (att[a].kind = "single" /\ att[a].prov # "claude-code"
            /\ att[a].reason = "backend_error")
        => /\ att[a].svc # <<>>
           /\ ~att[a].svc.success
           /\ att[a].svc.error = "backend_error"
           /\ att[a].svc.tokensSaved = 0
           /\ att[a].pc = "rejected"
           /\ HookError(att[a].svc.error)
           /\ NoWrites(a)

\* C13 witness: the adapter of a client single-block attempt raised
C13_Witness ==
    \E a \in Att :
        /\ att[a].kind = "single"
        /\ att[a].prov = "ollama"
        /\ att[a].calls = 1
        /\ att[a].reason = "backend_error"

\* C14: a single-block attempt on a block that is already compressed, meets
\* the 100-token floor and is not blank is not rejected by validation: it
\* reaches its backend (the strategy being one the service implements), and
\* once accepted the block carries the new content, token count, ratio and
\* strategy, with isCompressed still true and originalTokens as it was, for
\* as long as no client removes the block.
C14_RecompressionAllowed ==
    \A a \in Att :
        (att[a].kind = "single" /\ att[a].blks # <<>>
            /\ att[a].blks[1].isCompressed /\ ~Unsuitable(att[a].blks[1]))
        => /\ att[a].reason \notin {"too_small", "no_content", "already_compressed"}
           /\ (att[a].prov = "claude-code" \/ att[a].strategy = "semantic")
              => att[a].calls = 1
           /\ (att[a].pc = "accepted" /\ att[a].ids[1] \in DOMAIN store)
              => LET b == store[att[a].ids[1]]
                 IN /\ b.content = att[a].out
                    /\ b.tokens = att[a].comp
                    /\ b.ratio = <<att[a].orig, att[a].comp>>
                    /\ b.compressionStrategy = att[a].strategy
                    /\ b.isCompressed
                    /\ b.originalTokens = att[a].blks[1].originalTokens

\* C14 witness: a compressed block was compressed again on the client path
\* and its content and token count were replaced
C14_Witness ==
    \E a \in Att :
        /\ att[a].kind = "single"
        /\ att[a].prov = "openrouter"
        /\ att[a].pc = "accepted"
        /\ att[a].blks[1].isCompressed
        /\ att[a].ids[1] \in DOMAIN store
        /\ store[att[a].ids[1]].content # att[a].blks[1].content
        /\ store[att[a].ids[1]].tokens < att[a].blks[1].tokens

\* C15: a compressAndMerge called with an empty list of blocks is rejected
\* for that reason; it invokes no backend and inserts, deletes and patches
\* nothing.
C15_EmptyMergeRejected ==
    \A a \in Att :
        (att[a].kind = "merge" /\ att[a].ids = <<>>)
        => /\ att[a].pc = "rejected"
           /\ att[a].reason = "no_blocks"
           /\ HookError("no_blocks")
           /\ NoBackend(a)
           /\ NoWrites(a)

\* C15 witness: an empty merge was rejected while the store holds blocks
C15_Witness ==
    \E a \in Att :
        /\ att[a].kind = "merge"
        /\ att[a].ids = <<>>
        /\ att[a].pc = "rejected"
        /\ DOMAIN store # {}

\* the quality score the path of the attempt computes for its output
PathQuality(rec) ==
    IF rec.prov = "claude-code"
    THEN estimateQualityServer(rec.blks[1].content, rec.out)
    ELSE estimateQuality(rec.blks[1].content, rec.out)

\* C16: in a single-block attempt the backend is invoked only after the
\* block passed validation, quality is scored only after the ratio check
\* passed, and an output that fails the ratio floor and the quality floor
\* alike is rejected with the ratio reason.
C16_StepsInOrder ==
    \A a \in Att :
        (att[a].kind = "single" /\ att[a].blks # <<>>)
        => /\ ~NoBackend(a) => ~Unsuitable(att[a].blks[1])
           /\ att[a].quality # <<0, 0>> => ~RatioBelow(att[a].orig, att[a].comp)
           /\ (RatioBelow(att[a].orig, att[a].comp) /\ QualityBelow(PathQuality(att[a])))
              => Failed(a) /\ att[a].reason = "ratio"

\* C16 witness: the output of a client attempt failed both floors and was
\* rejected for its ratio
C16_Witness ==
    \E a \in Att :
        /\ att[a].kind = "single"
        /\ att[a].prov = "ollama"
        /\ att[a].pc = "rejected"
        /\ RatioBelow(att[a].orig, att[a].comp)
        /\ QualityBelow(estimateQuality(att[a].blks[1].content, att[a].out))

\* C17: the ratio floor is inclusive at 1.2: an attempt is rejected by the
\* ratio check exactly when 10 * originalTokens < 12 * compressedTokens, so
\* 1500 original tokens pass with 1250 compressed tokens and fail with 1251.
C17_RatioFloorInclusive ==
    probe.fn = "ratio"
    => /\ probe.rejected <=> (10 * probe.orig < 12 * probe.comp)
       /\ (probe.orig = 1500 /\ probe.comp = 1250) => ~probe.rejected
       /\ (probe.orig = 1500 /\ probe.comp = 1251) => probe.rejected

\* C17 witness: the check was applied at the boundary, 1500 against 1250
C17_Witness ==
    /\ probe.fn = "ratio"
    /\ probe.orig = 1500
    /\ probe.comp = 1250
    /\ ~probe.rejected

\* C18 (as stated): in a merge the originalTokens used for the ratio, and
\* persisted on the merged block, is the sum over the source blocks of the
\* cached token count when present, else the estimate of the content.
C18_MergeOriginalIsSum ==
    \A a \in Att :
        (att[a].kind = "merge" /\ att[a].blks # <<>> /\ att[a].comp # 0)
        => /\ att[a].orig = SumTokens(att[a].blks)
           /\ (att[a].inserted # 0 /\ att[a].inserted \in DOMAIN store)
              => store[att[a].inserted].originalTokens = SumTokens(att[a].blks)

RECURSIVE EstimateSum(_)
\* the sum of the length estimates of the contents of blks
EstimateSum(blks) ==
    IF blks = <<>> THEN 0
    ELSE estimateTokens(Head(blks).content) + EstimateSum(Tail(blks))

\* C19: in every attempt the two sides of the ratio come from the same
\* estimator: compressedTokens is estimateTokens of the output, and
\* originalTokens is estimateTokens of the content that was read (of the one
\* block, of each block of an agent merge, of the combined content of a
\* client merge), also where the count was taken from the block's cached
\* tokens.
C19_SameEstimator ==
    \A a \in Att :
        (att[a].blks # <<>> /\ att[a].orig # 0)
        => /\ att[a].comp # 0 => att[a].comp = estimateTokens(att[a].out)
           /\ att[a].orig =
                 IF att[a].kind = "single"
                 THEN estimateTokens(att[a].blks[1].content)
                 ELSE IF att[a].prov = "claude-code"
                 THEN EstimateSum(att[a].blks)
                 ELSE estimateTokens(combinedContent(att[a].blks))

\* C19 witness: a block with a cached token count was compressed again, the
\* cached count was the original side of the ratio and the output was scored
C19_Witness ==
    \E a \in Att :
        /\ att[a].kind = "single"
        /\ att[a].blks # <<>>
        /\ att[a].blks[1].tokens # 0
        /\ att[a].orig = att[a].blks[1].tokens
        /\ att[a].comp # 0
        /\ att[a].pc = "accepted"

\* C20: estimateQuality returns exactly 0.8 whenever the extractor finds no
\* important word in the original, whatever the compressed text is; this
\* holds of the client's estimateQuality and of the action's, each with its
\* own extractor.
C20_QualityDefault ==
    probe.fn = "quality"
    => /\ extractImportantWords(probe.original) = <<>> => probe.client = <<8, 10>>
       /\ extractImportantWordsServer(probe.original) = <<>> => probe.server = <<8, 10>>

\* C20 witness: a text of words none of which either extractor keeps was
\* scored against an output that has words of its own
C20_Witness ==
    /\ probe.fn = "quality"
    /\ probe.original.toks # <<>>
    /\ probe.compressed.toks # <<>>
    /\ extractImportantWords(probe.original) = <<>>
    /\ extractImportantWordsServer(probe.original) = <<>>
    /\ probe.client = <<8, 10>>
    /\ probe.server = <<8, 10>>

\* C21: the approximate estimator returns ceil(length / 4), which is never
\* negative, and is monotone in length: a text repeated, or a text with more
\* characters after it, never gets fewer tokens than the text itself.
C21_EstimatorMonotone ==
    probe.fn = "estimate"
    => /\ probe.tokens >= 0
       /\ 4 * probe.tokens >= TextLen(probe.text)
       /\ 4 * probe.tokens < TextLen(probe.text) + 4
       /\ probe.doubled >= probe.tokens
       /\ (TextLen(probe.longer) >= TextLen(probe.text))
          => probe.tokensLonger >= probe.tokens

\* C21 witness: a text whose length is not a multiple of four was estimated,
\* and its repetition got more tokens
C21_Witness ==
    /\ probe.fn = "estimate"
    /\ TextLen(probe.text) % 4 = 1
    /\ 4 * probe.tokens > TextLen(probe.text)
    /\ probe.doubled > probe.tokens
    /\ TextLen(probe.longer) > TextLen(probe.text)

NoDuplicates(words) ==
    \A i, j \in 1..Len(words) : words[i] = words[j] => i = j

\* C22 (as stated): extractImportantWords returns, for any text, a
\* deduplicated collection of at most 50 entries, in the client's copy and in
\* the action's copy.
C22_ExtractDeduplicated ==
    probe.fn = "extract"
    => /\ NoDuplicates(probe.client) /\ Len(probe.client) <= ServerWordCap
       /\ NoDuplicates(probe.server) /\ Len(probe.server) <= ServerWordCap

\* C23: the OpenRouter API key reaches no log or debug output: getAllSettings
\* gives the same result for two settings states that differ only in the
\* value of a configured (non-empty) key, and so do the console lines of a
\* call of the compression hook; neither the result of getAllSettings nor any
\* console line of the hook, the logged message of a caught error included,
\* contains the key.
C23_KeyNeverLogged ==
    probe.fn = "settings"
    => /\ (probe.ls.key # "" /\ probe.other.key # "")
          => probe.all = probe.allOther /\ probe.log = probe.logOther
       /\ probe.ls.key # ""
          => /\ \A i \in DOMAIN probe.log : probe.ls.key \notin Range(probe.log[i])
             /\ \A f \in DOMAIN probe.all : probe.all[f] # probe.ls.key

\* C23 witness: two states with different configured keys were exported, and
\* under them a call on the OpenRouter path failed in the client, which held
\* the key, and the hook logged the client's message
C23_Witness ==
    /\ probe.fn = "settings"
    /\ probe.ls.key = "sk-or-A"
    /\ probe.other.key = "sk-or-B"
    /\ probe.all.openrouterApiKey = "[CONFIGURED]"
    /\ probe.allOther.openrouterApiKey = "[CONFIGURED]"
    /\ getProvider(probe.ls.provider) = "openrouter"
    /\ probe.outcome.why = "backend"
    /\ OpenRouterRequest(probe.ls).authorization = <<"Bearer", "sk-or-A">>
    /\ probe.log[4] = OpenRouterError(OpenRouterRequest(probe.ls), "401")

\* C24 (as stated): the hook takes the server-side mode exactly when the
\* CLAUDE_CODE_ENABLED flag is on, and the client-side service otherwise.
C24_RoutedByFlag ==
    probe.fn = "route" => (probe.mode = "server" <=> probe.flag)

\* C25 (as stated): no attempt is accepted with empty compressed text: an
\* attempt that got as far as a store mutation, or was accepted, has a
\* non-empty output, so no block is patched to empty content and no source
\* is deleted in favour of an empty merged block.
C25_EmptyOutputRejected ==
    \A a \in Att :
        att[a].pc \in {"mutate", "insert", "delete", "return", "accepted", "crashed"}
        => TextLen(att[a].out) > 0

\* C29 (as stated): an attempt with a strategy other than "semantic" is
\* rejected without a backend call and without a store write, on the
\* client-service path and on the local-agent path alike.
C29_NonSemanticRejected ==
    \A a \in Att :
        (att[a].kind # "none" /\ att[a].strategy # "semantic")
        => /\ NoBackend(a)
           /\ NoWrites(a)
           /\ att[a].pc # "accepted"

\* C26 (as stated): a single-block compression never overwrites newer
\* content: the content its accepted write replaces is the content the call
\* read.
C26_NeverOverwritesNewer ==
    [][\A a \in DOMAIN att :
          (att[a].kind = "single" /\ att[a].pc = "mutate" /\ att'[a].pc = "return")
          => store[att[a].ids[1]].content = att[a].blks[1].content]_vars

\* C26 (amended): the last write wins: an accepted single-block compression
\* sets the block's content to the compressed text derived from the content
\* the call read, whatever content the block holds by then.
C26_LastWriteWins ==
    [][\A a \in DOMAIN att :
          (att[a].kind = "single" /\ att[a].pc = "mutate" /\ att'[a].pc = "return")
          => /\ store'[att[a].ids[1]].content = att[a].out
             /\ store'[att[a].ids[1]].isCompressed]_vars

\* C26 witness: two calls read the same content of one block and both were
\* accepted with different outputs; the store holds the output of one of them
C26_Witness ==
    /\ \A a \in DOMAIN att : att[a].kind = "single" /\ att[a].pc = "accepted"
    /\ DOMAIN att = Calls
    /\ att["a1"].ids = att["a2"].ids
    /\ att["a1"].out # att["a2"].out
    /\ store[1].content = att["a1"].out
    /\ store[1].content # BigText

\* C27 (as stated): isCompressing is true whenever a compressSingle or
\* compressAndMerge attempt started through the hook has not finished, two
\* overlapping attempts included, and false once all have finished.
C27_BusyWhileAnyInFlight ==
    isCompressing <=> \E a \in DOMAIN att : InFlight(a)

\* C28 (as stated): when no call is in flight, error and result are never
\* both non-null.
C28_ErrorXorResult ==
    (\A a \in DOMAIN att : ~InFlight(a)) => ~(error # "" /\ result # <<>>)

\* C30 (as stated): in useConfirmDelete the pending item goes back to null
\* only when onDelete succeeded for it, or by cancelDelete while no delete is
\* in progress; cancelDelete during a delete leaves itemToDelete unchanged,
\* and a failed onDelete leaves the item pending with isDeleting false.
C30_PendingItemKept ==
    [][/\ (confirm.itemToDelete # "" /\ confirm'.itemToDelete = "")
          => \/ /\ confirm'.last.op = "resolved"
                /\ confirm'.last.item = confirm.itemToDelete
             \/ /\ confirm'.last.op = "cancel"
                /\ confirm.running = <<>>
       /\ (confirm'.last.op = "cancel" /\ confirm.running # <<>>)
          => confirm'.itemToDelete = confirm.itemToDelete
       /\ confirm'.last.op = "rejected"
          => /\ confirm'.itemToDelete = confirm.itemToDelete
             /\ ~confirm'.isDeleting]_vars

====
